---- MODULE Spec2Model ----
(***************************************************************************)
(* A model of the article archive: the SQLite article store (db.py), the   *)
(* search and republish-candidate queries (db.py, app.py), the RSS ingest  *)
(* (ingest.py) and the archive backfill (backfill.py).                     *)
(*                                                                         *)
(* Text is a sequence of one-character strings, so that lower-casing,      *)
(* diacritic folding, LIKE matching and the byte-wise comparison of ISO    *)
(* timestamps are computed character by character as the code does.        *)
(***************************************************************************)
EXTENDS Integers, Sequences, FiniteSets, TLC

VARIABLES
    articles,     \* the rows of table articles, in rowid order
    seq,          \* sqlite_sequence.seq of table articles (AUTOINCREMENT)
    now,          \* the UTC clock, in seconds after ClockBase 00:00:00
    firstWrite,   \* history: per url, the id and created_at of its first insert
    lastWrite,    \* history: per url, the arguments, time and number of the last save_article
    response,     \* the result of a query or endpoint call, until its caller has taken it
    run,          \* the ingest or backfill run in progress, or the last one ended
    fetched,      \* the network requests made by the current run, in order
    invoked,      \* the days for which the current run called backfill_day, in order
    writers       \* the concurrent callers of save_article, SQLite's write lock and
                  \* what was committed, in order

vars == <<articles, seq, now, firstWrite, lastWrite, response, run, fetched, invoked, writers>>

\* Python's None and SQL's NULL where a text is expected: no text holds this element.
None == <<"None">>
\* No entry yet in a history.
Unset == <<>>

----------------------------------------------------------------------------
(* Bounds of the model. *)

\* The clock stops advancing after this many seconds.
MaxClock == 2
\* At most this many save_article calls in one behaviour of the store.
MaxSaves == 3
\* At most this many feed or backfill runs in one behaviour of the pipeline.
MaxRuns == 2

----------------------------------------------------------------------------
(* Characters and text. *)


\* The lower-case letter of each upper-case ASCII letter.
AsciiLower ==
    "A" :> "a" @@ "B" :> "b" @@ "C" :> "c" @@ "D" :> "d" @@ "E" :> "e" @@ "F" :> "f" @@
    "G" :> "g" @@ "H" :> "h" @@ "I" :> "i" @@ "J" :> "j" @@ "K" :> "k" @@ "L" :> "l" @@
    "M" :> "m" @@ "N" :> "n" @@ "O" :> "o" @@ "P" :> "p" @@ "Q" :> "q" @@ "R" :> "r" @@
    "S" :> "s" @@ "T" :> "t" @@ "U" :> "u" @@ "V" :> "v" @@ "W" :> "w" @@ "X" :> "x" @@
    "Y" :> "y" @@ "Z" :> "z"

IsUpperAscii(c) == c \in DOMAIN AsciiLower

\* sqlite3Tolower / SQLite's built-in LOWER(): ASCII letters only.
SqliteLowerChar(c) == IF IsUpperAscii(c) THEN AsciiLower[c] ELSE c

\* Python's str.lower(): Unicode aware.
PyLowerChar(c) ==
    CASE IsUpperAscii(c) -> SqliteLowerChar(c)
      [] c = "Ä" -> "ä"
      [] c = "Ö" -> "ö"
      [] c = "Ü" -> "ü"
      [] OTHER -> c


PyLower(s) == [i \in 1..Len(s) |-> PyLowerChar(s[i])]
SqliteLower(s) == [i \in 1..Len(s) |-> SqliteLowerChar(s[i])]

RECURSIVE Concat(_)
Concat(ss) == IF ss = <<>> THEN <<>> ELSE Head(ss) \o Concat(Tail(ss))

\* s[from..] as a sequence
Drop(s, n) == SubSeq(s, n + 1, Len(s))

\* Python's s.startswith(p)
IsPrefix(p, s) == Len(p) <= Len(s) /\ \A i \in 1..Len(p) : s[i] = p[i]

\* Python's `p in s`
Contains(s, p) ==
    \E k \in 0..(Len(s) - Len(p)) : \A i \in 1..Len(p) : s[k + i] = p[i]

----------------------------------------------------------------------------
(* Calendar days and ISO-8601 text.  A day is its number of days since      *)
(* 1970-01-01 in the proleptic Gregorian calendar.                          *)

DaysFromCivil(y, m, d) ==
    LET yy  == IF m <= 2 THEN y - 1 ELSE y
        era == yy \div 400
        yoe == yy - era * 400
        mp  == IF m > 2 THEN m - 3 ELSE m + 9
        doy == (153 * mp + 2) \div 5 + d - 1
        doe == yoe * 365 + yoe \div 4 - yoe \div 100 + doy
    IN era * 146097 + doe - 719468

CivilFromDays(z) ==
    LET zz  == z + 719468
        era == zz \div 146097
        doe == zz - era * 146097
        yoe == (doe - doe \div 1460 + doe \div 36524 - doe \div 146096) \div 365
        doy == doe - (365 * yoe + yoe \div 4 - yoe \div 100)
        mp  == (5 * doy + 2) \div 153
        d   == doy - (153 * mp + 2) \div 5 + 1
        m   == IF mp < 10 THEN mp + 3 ELSE mp - 9
        y   == yoe + era * 400 + (IF m <= 2 THEN 1 ELSE 0)
    IN [year |-> y, month |-> m, day |-> d]

DigitChars == <<"0","1","2","3","4","5","6","7","8","9">>
Digit(n) == DigitChars[n + 1]
TwoDigits(n) == <<Digit(n \div 10), Digit(n % 10)>>
FourDigits(n) ==
    <<Digit(n \div 1000), Digit((n \div 100) % 10), Digit((n \div 10) % 10), Digit(n % 10)>>

\* date.isoformat(): YYYY-MM-DD
IsoDate(z) ==
    LET c == CivilFromDays(z)
    IN FourDigits(c.year) \o <<"-">> \o TwoDigits(c.month) \o <<"-">> \o TwoDigits(c.day)

\* datetime.isoformat(timespec="seconds"): YYYY-MM-DDTHH:MM:SS
IsoDateTime(z, s) ==
    IsoDate(z) \o <<"T">> \o TwoDigits(s \div 3600) \o <<":">>
        \o TwoDigits((s \div 60) % 60) \o <<":">> \o TwoDigits(s % 60)

\* The Unicode code point of a character.  Python compares str values by code
\* point, SQLite compares TEXT values by their UTF-8 bytes: the same order.
CodePoints ==
    "\n" :> 10 @@ "." :> 46 @@ "/" :> 47 @@
    " " :> 32 @@ "%" :> 37 @@ "-" :> 45 @@ "0" :> 48 @@ "1" :> 49 @@ "2" :> 50 @@
    "3" :> 51 @@ "4" :> 52 @@ "5" :> 53 @@ "6" :> 54 @@ "7" :> 55 @@ "8" :> 56 @@
    "9" :> 57 @@ ":" :> 58 @@ "A" :> 65 @@ "B" :> 66 @@ "C" :> 67 @@ "D" :> 68 @@
    "E" :> 69 @@ "F" :> 70 @@ "G" :> 71 @@ "H" :> 72 @@ "I" :> 73 @@ "J" :> 74 @@
    "K" :> 75 @@ "L" :> 76 @@ "M" :> 77 @@ "N" :> 78 @@ "O" :> 79 @@ "P" :> 80 @@
    "Q" :> 81 @@ "R" :> 82 @@ "S" :> 83 @@ "T" :> 84 @@ "U" :> 85 @@ "V" :> 86 @@
    "W" :> 87 @@ "X" :> 88 @@ "Y" :> 89 @@ "Z" :> 90 @@ "_" :> 95 @@ "a" :> 97 @@
    "b" :> 98 @@ "c" :> 99 @@ "d" :> 100 @@ "e" :> 101 @@ "f" :> 102 @@ "g" :> 103 @@
    "h" :> 104 @@ "i" :> 105 @@ "j" :> 106 @@ "k" :> 107 @@ "l" :> 108 @@ "m" :> 109 @@
    "n" :> 110 @@ "o" :> 111 @@ "p" :> 112 @@ "q" :> 113 @@ "r" :> 114 @@ "s" :> 115 @@
    "t" :> 116 @@ "u" :> 117 @@ "v" :> 118 @@ "w" :> 119 @@ "x" :> 120 @@ "y" :> 121 @@
    "z" :> 122 @@ "Ä" :> 196 @@ "Ö" :> 214 @@ "Ü" :> 220 @@ "ß" :> 223 @@ "ä" :> 228 @@
    "ö" :> 246 @@ "ü" :> 252 @@ "U+0308" :> 776

CodePoint(c) == CodePoints[c]

\* SQLite's comparison of two TEXT values under the BINARY collation (memcmp,
\* the shorter value first when it is a prefix of the longer).
TextLeq(a, b) ==
    LET n == IF Len(a) < Len(b) THEN Len(a) ELSE Len(b)
        differ == {i \in 1..n : a[i] # b[i]}
    IN IF differ = {} THEN Len(a) <= Len(b)
       ELSE LET i == CHOOSE x \in differ : \A y \in differ : x <= y
            IN CodePoint(a[i]) < CodePoint(b[i])

----------------------------------------------------------------------------
(* The article store: db.py. *)

\* The day on which the clock starts.
ClockBase == DaysFromCivil(2026, 2, 15)

\* datetime.utcnow().isoformat(timespec="seconds")
UtcNowIso == IsoDateTime(ClockBase + now \div 86400, now % 86400)

RowOf(url) == CHOOSE i \in 1..Len(articles) : articles[i].url = url
HasUrl(url) == \E i \in 1..Len(articles) : articles[i].url = url

\* An update that replaces the whole row but its id.
UpsertMut(old, new) ==
    [new EXCEPT !.id = old.id]

\* ON CONFLICT(url) DO UPDATE SET ...: the columns the update assigns.
Upsert(old, new) ==
    [old EXCEPT !.title = new.title,
                !.summary = new.summary,
                !.content = new.content,
                !.published_at = new.published_at,
                !.source = new.source,
                !.updated_at = new.updated_at]

\* The table after INSERT ... ON CONFLICT(url) DO UPDATE of one row at time ts.
\* The UNIQUE constraint on url decides between insert and update; the rowid of
\* a new row is one more than sqlite_sequence.seq.
Inserted(table, counter, a, ts) ==
    LET new == [id |-> counter + 1, url |-> a.url, title |-> a.title,
                summary |-> a.summary, content |-> a.content,
                published_at |-> a.published_at, source |-> a.source,
                created_at |-> ts, updated_at |-> ts]
    IN IF \E i \in 1..Len(table) : table[i].url = a.url
       THEN [i \in 1..Len(table) |->
                IF table[i].url = a.url THEN Upsert(table[i], new) ELSE table[i]]
       ELSE Append(table, new)

\* No call is outstanding: the operations run one at a time.
Idle == [kind |-> "idle"]

\* No ingest or backfill run has been started.
NoRun == [kind |-> "none", status |-> "returned", number |-> 0]

Urls == {<<"u","1">>, <<"u","2">>}

\* Two callers of save_article, each with a connection of its own; none has
\* called yet, the write lock of the database file is free and nothing is
\* committed.
Writers == {"w1", "w2"}
NotCalling == [pc |-> "idle"]
NoWriters ==
    [of |-> [w \in Writers |-> NotCalling], lock |-> <<>>, calls |-> 0, commits |-> <<>>]

NoHistory == [u \in Urls |-> Unset]

\* save_article(url=, title=, summary=, content=, published_at=, source=).
\* SQLite takes a rowid from the AUTOINCREMENT counter before it looks for the
\* conflict, so the counter advances on an update as well.
SaveArticle(a) ==
    /\ response = Idle
    /\ seq < MaxSaves
    /\ articles' = Inserted(articles, seq, a, UtcNowIso)
    /\ seq' = seq + 1
    /\ firstWrite' = IF a.url \in Urls /\ firstWrite[a.url] = Unset
                     THEN [firstWrite EXCEPT ![a.url] =
                              <<[id |-> seq + 1, created_at |-> UtcNowIso]>>]
                     ELSE firstWrite
    /\ lastWrite' = IF a.url \in Urls
                    THEN [lastWrite EXCEPT ![a.url] = <<[args |-> a, at |-> UtcNowIso,
                                                               call |-> seq + 1]>>]
                    ELSE lastWrite
    /\ UNCHANGED <<now, response, run, fetched, invoked, writers>>

\* Time passes between two calls.
Tick ==
    /\ now < MaxClock
    /\ now' = now + 1
    /\ UNCHANGED <<articles, seq, firstWrite, lastWrite, response, run, fetched, invoked, writers>>

\* init_db(): CREATE TABLE IF NOT EXISTS leaves an empty table on first use.
InitStore ==
    /\ articles = <<>>
    /\ seq = 0
    /\ now = 0
    /\ firstWrite = NoHistory
    /\ lastWrite = NoHistory

Init ==
    /\ InitStore
    /\ response = Idle
    /\ run = NoRun
    /\ fetched = <<>>
    /\ invoked = <<>>
    /\ writers = NoWriters

----------------------------------------------------------------------------
(* The text normalizer and the queries: db.py. *)

\* U+0308 COMBINING DIAERESIS, the combining mark (category Mn) of the umlauts:
\* one code point, written here by its name.
CombiningDiaeresis == "U+0308"
IsCombiningMark(c) == c = CombiningDiaeresis

\* unicodedata.normalize("NFD", c): a letter with diaeresis decomposes into
\* the letter and the combining diaeresis.
NfdChar(c) ==
    CASE c = "ä" -> <<"a", CombiningDiaeresis>>
      [] c = "ö" -> <<"o", CombiningDiaeresis>>
      [] c = "ü" -> <<"u", CombiningDiaeresis>>
      [] c = "Ä" -> <<"A", CombiningDiaeresis>>
      [] c = "Ö" -> <<"O", CombiningDiaeresis>>
      [] c = "Ü" -> <<"U", CombiningDiaeresis>>
      [] OTHER -> <<c>>

\* "".join(c for c in unicodedata.normalize("NFD", s) if category(c) != "Mn")
NotCombiningMark(c) == ~IsCombiningMark(c)
WithoutAccents(s) ==
    SelectSeq(Concat([i \in 1..Len(s) |-> NfdChar(s[i])]), NotCombiningMark)

\* .replace("ä", "ae").replace("ö", "oe").replace("ü", "ue").replace("ß", "ss")
TranslitChar(c) ==
    CASE c = "ä" -> <<"a", "e">>
      [] c = "ö" -> <<"o", "e">>
      [] c = "ü" -> <<"u", "e">>
      [] c = "ß" -> <<"s", "s">>
      [] OTHER -> <<c>>

TextLess(a, b) == a # b /\ TextLeq(a, b)

\* sorted(S) for a set of texts
LeastText(S) == CHOOSE x \in S : \A y \in S : TextLeq(x, y)
RECURSIVE SortedFrom(_, _)
SortedFrom(m, S) == <<m>> \o (IF S = {m} THEN <<>> ELSE SortedFrom(LeastText(S \ {m}), S \ {m}))
SortedTexts(S) == IF S = {} THEN <<>> ELSE SortedFrom(LeastText(S), S)

\* The variants of the lower-cased term, as a sorted list without duplicates
\* and without the empty text.
VariantsOf(term_lower) ==
    SortedTexts({v \in { term_lower,
                         WithoutAccents(term_lower),
                         Concat([i \in 1..Len(term_lower) |-> TranslitChar(term_lower[i])]) } :
                    v # <<>>})

expand_search_variants(term) == VariantsOf(PyLower(term))

\* SQLite's `text LIKE pattern`: % matches any run of characters, _ any one
\* character, and any other character matches itself, ASCII letters without
\* regard to case.
RECURSIVE Like(_, _)
Like(text, pattern) ==
    IF pattern = <<>> THEN text = <<>>
    ELSE IF Head(pattern) = "%"
         THEN \E k \in 0..Len(text) : Like(Drop(text, k), Tail(pattern))
    ELSE IF text = <<>> THEN FALSE
    ELSE IF Head(pattern) = "_" THEN Like(Tail(text), Tail(pattern))
    ELSE /\ SqliteLowerChar(Head(text)) = SqliteLowerChar(Head(pattern))
         /\ Like(Tail(text), Tail(pattern))

\* LOWER(column) LIKE '%v%'; NULL when the column is NULL, which selects nothing.
ColumnLike(column, v) ==
    /\ column # None
    /\ Like(SqliteLower(column), <<"%">> \o v \o <<"%">>)

\* (LOWER(title) LIKE ? OR LOWER(summary) LIKE ? OR LOWER(content) LIKE ?), OR-ed
\* over the variants of the term.
VariantMatches(row, variants) ==
    \E i \in 1..Len(variants) :
        \/ ColumnLike(row.title, variants[i])
        \/ ColumnLike(row.summary, variants[i])
        \/ ColumnLike(row.content, variants[i])

TextMatches(row, term) == VariantMatches(row, expand_search_variants(term))

\* A date argument that is None or empty adds no condition.
Given(d) == d # None /\ d # <<>>

EndOfDaySuffix == <<"T","2","3",":","5","9",":","5","9">>

\* The upper bound without the end-of-day suffix.
ToDateBoundMut(to_date) == to_date

\* to_date + "T23:59:59"
ToDateBound(to_date) == to_date \o EndOfDaySuffix

\* A comparison that lets a NULL published_at pass.
FromDateHoldsMut(row, from_date) ==
    row.published_at = None \/ TextLeq(from_date, row.published_at)

\* published_at >= from_date; NULL, and so not selected, for a NULL published_at.
FromDateHolds(row, from_date) ==
    row.published_at # None /\ TextLeq(from_date, row.published_at)

\* published_at <= to_date + "T23:59:59"
ToDateHolds(row, to_date) ==
    row.published_at # None /\ TextLeq(row.published_at, ToDateBound(to_date))

exclude_terms ==
    << <<"u","n","f","a","l","l">>,
       <<"f","e","u","e","r","w","e","h","r">>,
       <<"b","r","a","n","d">>,
       <<"p","o","l","i","z","e","i">>,
       <<"p","r","o","z","e","s","s">>,
       <<"g","e","r","i","c","h","t">>,
       <<"f","e","s","t","g","e","n","o","m","m","e","n">>,
       <<"f","e","s","t","n","a","h","m","e">>,
       <<"v","e","r","h","a","f","t","e","t">>,
       <<"w","e","t","t","e","r","w","a","r","n","u","n","g">>,
       <<"s","t","u","r","m","w","a","r","n","u","n","g">>,
       <<"s","p","o","r","t">>,
       <<"s","p","i","e","l">>,
       <<"t","o","r">>,
       <<"e","r","g","e","b","n","i","s">> >>

\* A candidates query without the exclusion list.
NotExcludedMut(row) == TRUE

\* LOWER(title) NOT LIKE '%term%' for every term of exclude_terms
NotExcluded(row) ==
    \A i \in 1..Len(exclude_terms) :
        /\ row.title # None
        /\ ~Like(SqliteLower(row.title), <<"%">> \o exclude_terms[i] \o <<"%">>)

\* The order with its tie-break turned round: id ASC.
RowBeforeMut(a, b) ==
    IF (a.published_at = None) # (b.published_at = None)
    THEN b.published_at = None
    ELSE IF a.published_at # None /\ a.published_at # b.published_at
    THEN TextLess(b.published_at, a.published_at)
    ELSE a.id < b.id

\* ORDER BY (published_at IS NULL), published_at DESC, id DESC
RowBefore(a, b) ==
    IF (a.published_at = None) # (b.published_at = None)
    THEN b.published_at = None
    ELSE IF a.published_at # None /\ a.published_at # b.published_at
    THEN TextLess(b.published_at, a.published_at)
    ELSE a.id > b.id

\* LIMIT ?: a negative limit is no limit.
Limited(rows, limit) ==
    IF limit < 0 \/ limit >= Len(rows) THEN rows ELSE SubSeq(rows, 1, limit)

\* SELECT id, url, title, summary, published_at, source
Selected(row) ==
    [id |-> row.id, url |-> row.url, title |-> row.title, summary |-> row.summary,
     published_at |-> row.published_at, source |-> row.source]

\* The selected rows ordered, limited and projected.
Projected(rows) == [i \in 1..Len(rows) |-> Selected(rows[i])]

Returned(rows, limit) ==
    Projected(Limited(SortSeq(rows, RowBefore), limit))

SearchWhere(row, variants, from_date, to_date) ==
    /\ VariantMatches(row, variants)
    /\ Given(from_date) => FromDateHolds(row, from_date)
    /\ Given(to_date) => ToDateHolds(row, to_date)

SearchWith(variants, limit, from_date, to_date) ==
    LET Where(row) == SearchWhere(row, variants, from_date, to_date)
    IN Returned(SelectSeq(articles, Where), limit)

\* search_articles(query, limit, from_date, to_date); the callers pass a
\* non-blank query.
search_articles(query, limit, from_date, to_date) ==
    SearchWith(expand_search_variants(query), limit, from_date, to_date)

\* Without a topic there is no condition on the text and no variant.
RepublishWhere(row, variants, from_date, to_date) ==
    /\ variants # <<>> => VariantMatches(row, variants)
    /\ FromDateHolds(row, from_date)
    /\ ToDateHolds(row, to_date)
    /\ NotExcluded(row)

RepublishWith(variants, from_date, to_date, limit) ==
    LET Where(row) == RepublishWhere(row, variants, from_date, to_date)
    IN Returned(SelectSeq(articles, Where), limit)

\* get_republish_candidates(topic, from_date, to_date, limit)
get_republish_candidates(topic, from_date, to_date, limit) ==
    RepublishWith(IF Given(topic) THEN expand_search_variants(topic) ELSE <<>>,
                  from_date, to_date, limit)

----------------------------------------------------------------------------
(* Texts and articles the callers of the store supply. *)

Empty == <<>>
TxtGoettingen == <<"g","o","e","t","t","i","n","g","e","n">>
TxtGOETTINGEN == <<"G","Ö","T","T","I","N","G","E","N">>
TxtGoettingenUmlaut == <<"G","ö","t","t","i","n","g","e","n">>
TxtUnfallA7 == <<"U","n","f","a","l","l"," ","a","u","f"," ","d","e","r"," ","A","7">>
TxtMarkt == <<"M","a","r","k","t">>
TxtStadtfest == <<"S","t","a","d","t","f","e","s","t">>
SrcFeed == <<"G","T">>
SrcArchive == <<"G","T"," ","A","r","c","h","i","v">>

July01 == DaysFromCivil(2025, 7, 1)
July31 == DaysFromCivil(2025, 7, 31)
Aug01 == DaysFromCivil(2025, 8, 1)

\* What a caller passes to save_article besides the url.
Payloads ==
    { [title |-> TxtGoettingen, summary |-> Empty, content |-> TxtStadtfest,
       published_at |-> IsoDateTime(July31, 23 * 3600), source |-> SrcFeed],
      [title |-> TxtGOETTINGEN, summary |-> TxtMarkt, content |-> Empty,
       published_at |-> IsoDateTime(July01, 0), source |-> SrcArchive],
      [title |-> TxtUnfallA7, summary |-> Empty, content |-> TxtGoettingenUmlaut,
       published_at |-> IsoDateTime(July31, 23 * 3600), source |-> SrcFeed],
      [title |-> TxtMarkt, summary |-> TxtGoettingenUmlaut, content |-> Empty,
       published_at |-> IsoDateTime(Aug01, 0), source |-> SrcArchive],
      [title |-> TxtStadtfest, summary |-> Empty, content |-> TxtMarkt,
       published_at |-> None, source |-> SrcFeed] }

WithUrl(u, p) ==
    [url |-> u, title |-> p.title, summary |-> p.summary, content |-> p.content,
     published_at |-> p.published_at, source |-> p.source]

StoreArticles == {WithUrl(u, p) : u \in Urls, p \in Payloads}

----------------------------------------------------------------------------
(* The store under arbitrary sequences of save_article calls. *)

Next ==
    \/ \E a \in StoreArticles : SaveArticle(a)
    \/ Tick

Spec == Init /\ [][Next]_vars

RowsOf(u) == {i \in 1..Len(articles) : articles[i].url = u}

\* C1: after any sequence of save_article calls the table holds exactly one row
\* per url that was saved and none for a url that was not; the row's title,
\* summary, content, published_at, source and updated_at are those of the last
\* call for the url, and its id and created_at are those of the first insert.
C1_OneRowPerUrl ==
    \A u \in Urls :
        IF lastWrite[u] = Unset
        THEN RowsOf(u) = {}
        ELSE /\ Cardinality(RowsOf(u)) = 1
             /\ LET r == articles[RowOf(u)]
                    w == lastWrite[u][1]
                IN /\ r.title = w.args.title
                   /\ r.summary = w.args.summary
                   /\ r.content = w.args.content
                   /\ r.published_at = w.args.published_at
                   /\ r.source = w.args.source
                   /\ r.updated_at = w.at
                   /\ r.created_at = firstWrite[u][1].created_at
                   /\ r.id = firstWrite[u][1].id

\* A url saved twice, the second time later and with another title, while
\* another url was inserted in between.
C1_Witness ==
    \E u \in Urls :
        /\ HasUrl(u)
        /\ Len(articles) = 2
        /\ articles[RowOf(u)].updated_at # articles[RowOf(u)].created_at
        /\ articles[RowOf(u)].title = TxtGoettingen
        /\ articles[RowOf(u)].id = 1
        /\ seq = 3

----------------------------------------------------------------------------
(* The endpoints that serve republish candidates: app.py. *)

\* Republish candidates are at least this many days old.
StaleDays == 180
\* ... and at most about three years old.
MaxAgeDays == 3 * 365

\* datetime.utcnow().date()
Today == ClockBase + now \div 86400

DefaultToDate == IsoDate(Today - StaleDays)
DefaultFromDate == IsoDate(Today - MaxAgeDays)

\* The candidates, or the plain search when there are none and a topic is set.
OrSearch(results, topic, from_date, to_date, limit) ==
    IF results = <<>> /\ Given(topic)
    THEN search_articles(topic, limit, from_date, to_date)
    ELSE results

CandidatesOrSearch(topic, from_date, to_date, limit) ==
    OrSearch(get_republish_candidates(topic, from_date, to_date, limit),
             topic, from_date, to_date, limit)

\* db.search_articles called directly
SearchArticles(query, limit, from_date, to_date) ==
    /\ response = Idle
    /\ response' = [kind |-> "search", query |-> query, limit |-> limit,
                    from_date |-> from_date, to_date |-> to_date,
                    rows |-> search_articles(query, limit, from_date, to_date)]
    /\ UNCHANGED <<articles, seq, now, firstWrite, lastWrite, run, fetched, invoked, writers>>

\* db.get_republish_candidates called directly
GetRepublishCandidates(topic, from_date, to_date, limit) ==
    /\ response = Idle
    /\ response' = [kind |-> "candidates", query |-> topic, limit |-> limit,
                    from_date |-> from_date, to_date |-> to_date,
                    rows |-> get_republish_candidates(topic, from_date, to_date, limit)]
    /\ UNCHANGED <<articles, seq, now, firstWrite, lastWrite, run, fetched, invoked, writers>>

\* GET /republish_candidates
RepublishCandidatesEndpoint(topic, limit, from_date, to_date) ==
    /\ response = Idle
    /\ LET to_d   == IF Given(to_date) THEN to_date ELSE DefaultToDate
           from_d == IF Given(from_date) THEN from_date ELSE DefaultFromDate
       IN response' = [kind |-> "republish_candidates", query |-> topic, limit |-> limit,
                       from_date |-> from_d, to_date |-> to_d,
                       rows |-> CandidatesOrSearch(topic, from_d, to_d, limit)]
    /\ UNCHANGED <<articles, seq, now, firstWrite, lastWrite, run, fetched, invoked, writers>>

\* GET /seo/weekly_digest: the candidates it renders into the digest text and
\* posts, or 403 for a wrong token.
SeoWeeklyDigest(token_ok, topic, limit) ==
    /\ response = Idle
    /\ response' =
          IF ~token_ok THEN [kind |-> "forbidden"]
          ELSE [kind |-> "weekly_digest", query |-> topic, limit |-> limit,
                from_date |-> DefaultFromDate, to_date |-> DefaultToDate,
                rows |-> CandidatesOrSearch(topic, DefaultFromDate, DefaultToDate, limit)]
    /\ UNCHANGED <<articles, seq, now, firstWrite, lastWrite, run, fetched, invoked, writers>>

\* The caller takes the result of its call.
Return ==
    /\ response # Idle
    /\ response' = Idle
    /\ UNCHANGED <<articles, seq, now, firstWrite, lastWrite, run, fetched, invoked, writers>>

TermGoettingen == <<"G","ö","t","t","i","n","g","e","n">>
TermUnfall == <<"U","n","f","a","l","l">>
TermWildcard == <<"m","_","r","k","t">>
Terms == {TermGoettingen, TermUnfall, TermWildcard, TxtStadtfest}
Topics == Terms \cup {None}
\* A limit is any integer: limit: int has no lower bound in the endpoints.
Limits == {-1, 1, 20}
WindowDays == {July01, July31}
Dates == {IsoDate(d) : d \in WindowDays}
OptionalDates == Dates \cup {None}

NextQuery ==
    \/ \E a \in StoreArticles : SaveArticle(a)
    \/ \E q \in Terms, l \in Limits, f \in OptionalDates, t \in OptionalDates :
           SearchArticles(q, l, f, t)
    \/ \E q \in Topics, l \in Limits, f \in Dates, t \in Dates :
           GetRepublishCandidates(q, f, t, l)
    \/ \E q \in Topics, l \in Limits, f \in OptionalDates, t \in OptionalDates :
           RepublishCandidatesEndpoint(q, l, f, t)
    \/ \E ok \in BOOLEAN, q \in Topics, l \in Limits : SeoWeeklyDigest(ok, q, l)
    \/ Return

SpecQuery == Init /\ [][NextQuery]_vars

----------------------------------------------------------------------------
(* The queries against what they are to return. *)

DigitValue(c) == CodePoint(c) - 48
\* int(s) for a text of decimal digits
RECURSIVE Number(_)
Number(s) ==
    IF s = <<>> THEN 0
    ELSE 10 * Number(SubSeq(s, 1, Len(s) - 1)) + DigitValue(s[Len(s)])

\* The day a text YYYY-MM-DD... names, and the second YYYY-MM-DDTHH:MM:SS names.
DayNamed(s) ==
    DaysFromCivil(Number(SubSeq(s, 1, 4)), Number(SubSeq(s, 6, 7)), Number(SubSeq(s, 9, 10)))
SecondNamed(s) ==
    DayNamed(s) * 86400 + Number(SubSeq(s, 12, 13)) * 3600
        + Number(SubSeq(s, 15, 16)) * 60 + Number(SubSeq(s, 18, 19))

RowIds(rows) == {rows[i].id : i \in 1..Len(rows)}
Stored == {articles[i] : i \in 1..Len(articles)}

\* v occurs in text when the letter case of both is disregarded
OccursIgnoringCase(v, text) == Contains(PyLower(text), PyLower(v))

OccursAny(row, variants) ==
    \E i \in 1..Len(variants) :
        \/ OccursIgnoringCase(variants[i], row.title)
        \/ OccursIgnoringCase(variants[i], row.summary)
        \/ OccursIgnoringCase(variants[i], row.content)

VariantOccurs(row, term) == OccursAny(row, expand_search_variants(term))

\* C2: a search with no date window and a limit larger than the store returns
\* exactly the stored articles in whose title, summary or content a variant of
\* the term occurs as a substring, whatever the letter case of the stored text.
C2_SearchIsSubstringMatch ==
    (/\ response.kind = "search"
     /\ ~Given(response.from_date)
     /\ ~Given(response.to_date)
     /\ response.limit > Len(articles))
    => RowIds(response.rows) = {a.id : a \in {b \in Stored : VariantOccurs(b, response.query)}}

InWindow(row, from_date, to_date) ==
    /\ Given(from_date) =>
          /\ row.published_at # None
          /\ SecondNamed(row.published_at) >= DayNamed(from_date) * 86400
    /\ Given(to_date) =>
          /\ row.published_at # None
          /\ SecondNamed(row.published_at) <= DayNamed(to_date) * 86400 + 86399

\* C3: a search with a date window and a limit that does not truncate returns
\* exactly the articles that match the term and are published at or after the
\* first second of day from_date and at or before 23:59:59 of day to_date.
C3_DateWindowInclusive ==
    (/\ response.kind = "search"
     /\ Given(response.from_date) \/ Given(response.to_date)
     /\ response.limit >= Len(articles))
    => RowIds(response.rows) =
          {a.id : a \in {b \in Stored :
              /\ TextMatches(b, response.query)
              /\ InWindow(b, response.from_date, response.to_date)}}

\* A search from 2025-07-01 to 2025-07-31 found the matching article of
\* 2025-07-31T23:00:00 and left out the matching one of 2025-08-01.
C3_Witness ==
    /\ response.kind = "search"
    /\ response.from_date = IsoDate(July01)
    /\ response.to_date = IsoDate(July31)
    /\ \E a \in Stored :
          /\ a.published_at = IsoDateTime(July31, 23 * 3600)
          /\ a.id \in RowIds(response.rows)
    /\ \E a \in Stored :
          /\ a.published_at = IsoDateTime(Aug01, 0)
          /\ TextMatches(a, response.query)
          /\ a.id \notin RowIds(response.rows)

HardNews(title) ==
    \E i \in 1..Len(exclude_terms) : OccursIgnoringCase(exclude_terms[i], title)

\* C4: get_republish_candidates returns no article whose title contains a term
\* of the exclusion list, in whatever letter case.
C4_NoHardNewsCandidate ==
    response.kind = "candidates"
    => \A i \in 1..Len(response.rows) : ~HardNews(response.rows[i].title)

\* "Unfall auf der A7" matches the topic and lies in the window of a candidates
\* query that returned another article.
C4_Witness ==
    /\ response.kind = "candidates"
    /\ response.rows # <<>>
    /\ \E a \in Stored :
          /\ a.title = TxtUnfallA7
          /\ Given(response.query)
          /\ TextMatches(a, response.query)
          /\ InWindow(a, response.from_date, response.to_date)

\* C5: no article returned by /republish_candidates or placed in the weekly
\* digest has a title that contains a term of the exclusion list.
C5_NoHardNewsServed ==
    response.kind \in {"republish_candidates", "weekly_digest"}
    => \A i \in 1..Len(response.rows) : ~HardNews(response.rows[i].title)

----------------------------------------------------------------------------
(* The extraction of an article from a fetched page: backfill.py, ingest.py. *)

BASE_URL == <<"h","t","t","p","s",":","/","/","w","w","w",".","g","o","e","t","t","i",
      "n","g","e","r","-","t","a","g","e","b","l","a","t","t",".","d","e">>
LocalSection == <<"/","l","o","k","a","l","e","s","/","g","o","e","t","t","i","n","g","e",
      "n","-","l","k","/","g","o","e","t","t","i","n","g","e","n","/">>

\* A request that failed: a network error, a timeout or a status that is not 2xx.
FetchFailed == [ok |-> FALSE]

\* str.strip() / get_text(strip=True) of one text node
RECURSIVE LStrip(_)
LStrip(s) == IF s # <<>> /\ Head(s) \in {" ", "\n"} THEN LStrip(Tail(s)) ELSE s
RECURSIVE RStrip(_)
RStrip(s) ==
    IF s # <<>> /\ s[Len(s)] \in {" ", "\n"} THEN RStrip(SubSeq(s, 1, Len(s) - 1)) ELSE s
Strip(s) == LStrip(RStrip(s))

\* "\n\n".join(texts)
RECURSIVE JoinParagraphs(_)
JoinParagraphs(texts) ==
    IF texts = <<>> THEN <<>>
    ELSE IF Len(texts) = 1 THEN texts[1]
    ELSE Head(texts) \o <<"\n", "\n">> \o JoinParagraphs(Tail(texts))

\* The stripped texts of the p elements of the first article element, or of all
\* p elements of the page when it has no article element; the empty ones dropped.
ParagraphTexts(page) ==
    LET paragraphs == IF page.has_article THEN page.article_paragraphs
                      ELSE page.paragraphs
        texts == [i \in 1..Len(paragraphs) |-> Strip(paragraphs[i])]
        NonEmpty(t) == t # <<>>
    IN SelectSeq(texts, NonEmpty)

\* title_tag.get_text(strip=True) if title_tag else url; a Tag is true even
\* when it has no text.
PageTitle(page, url) ==
    IF page.h1 # <<>> THEN Strip(page.h1[1]) ELSE url

\* fetch_article_from_page(url, default_date): the article as a one-element
\* sequence, or the empty sequence for the empty dict.
fetch_article_from_page(url, default_date, outcome) ==
    IF ~outcome.ok THEN <<>>
    ELSE << [url |-> url,
             title |-> PageTitle(outcome, url),
             summary |-> Empty,
             content |-> JoinParagraphs(ParagraphTexts(outcome)),
             published_at |-> IsoDateTime(default_date, 0),
             source |-> SrcArchive] >>

\* fetch_fulltext(url)
fetch_fulltext(outcome) ==
    IF ~outcome.ok THEN Empty ELSE JoinParagraphs(ParagraphTexts(outcome))

\* The pages an article url may answer with: an h1 and paragraphs in an article
\* element; neither h1 nor paragraphs; an h1 without text and paragraphs outside
\* any article element.
PageFull ==
    [ok |-> TRUE, h1 |-> <<<<" ","S","t","a","d","t","f","e","s","t"," ">>, TxtMarkt>>, has_article |-> TRUE,
     article_paragraphs |-> <<<<" ","M","a","r","k","t">>, <<" "," ">>, TxtGoettingen>>,
     paragraphs |-> <<TxtUnfallA7, <<" ","M","a","r","k","t">>, <<" "," ">>, TxtGoettingen>>]
PageBare ==
    [ok |-> TRUE, h1 |-> <<>>, has_article |-> FALSE,
     article_paragraphs |-> <<>>, paragraphs |-> <<>>]
PageEmptyH1 ==
    [ok |-> TRUE, h1 |-> <<<<" ">>>>, has_article |-> FALSE,
     article_paragraphs |-> <<>>, paragraphs |-> <<TxtMarkt>>]
PageOutcomes == {FetchFailed, PageFull, PageBare, PageEmptyH1}

----------------------------------------------------------------------------
(* The archive backfill: backfill.py. *)

IsDigits(s) == \A i \in 1..Len(s) : s[i] \in {DigitChars[j] : j \in 1..10}

DaysInMonth(y, m) ==
    IF m = 12 THEN 31 ELSE DaysFromCivil(y, m + 1, 1) - DaysFromCivil(y, m, 1)

\* datetime.strptime(s, "%Y-%m-%d").date(): the day as a one-element sequence,
\* or the empty sequence where strptime raises ValueError.  %Y takes four
\* digits, %m and %d one or two; the whole text must be consumed and name a
\* day of the calendar.
DateAt(s, k) ==
    DaysFromCivil(Number(SubSeq(s, 1, 4)), Number(SubSeq(s, 6, k - 1)),
                  Number(SubSeq(s, k + 1, Len(s))))

\* The text is YYYY-M-D with the second hyphen at position k and names a day.
ParsesAt(s, k) ==
    /\ Len(s) >= k + 1 /\ Len(s) <= k + 2
    /\ s[5] = "-" /\ s[k] = "-"
    /\ IsDigits(SubSeq(s, 1, 4)) /\ IsDigits(SubSeq(s, 6, k - 1))
    /\ IsDigits(SubSeq(s, k + 1, Len(s)))
    /\ Number(SubSeq(s, 1, 4)) >= 1
    /\ Number(SubSeq(s, 6, k - 1)) \in 1..12
    /\ Number(SubSeq(s, k + 1, Len(s))) >= 1
    /\ Number(SubSeq(s, k + 1, Len(s)))
          <= DaysInMonth(Number(SubSeq(s, 1, 4)), Number(SubSeq(s, 6, k - 1)))

Strptime(s) ==
    IF ParsesAt(s, 7) THEN <<DateAt(s, 7)>>
    ELSE IF ParsesAt(s, 8) THEN <<DateAt(s, 8)>>
    ELSE <<>>

\* archive_url_for_date(day): BASE_URL/archiv/artikel-dd-mm-yyyy/
archive_url_for_date(day) ==
    LET c == CivilFromDays(day)
    IN BASE_URL \o <<"/","a","r","c","h","i","v","/","a","r","t","i","k","e","l","-">> \o TwoDigits(c.day) \o <<"-">>
           \o TwoDigits(c.month) \o <<"-">> \o FourDigits(c.year) \o <<"/">>

\* The absolute url of an href of the listing page, as a one-element sequence,
\* or the empty sequence for an href that is skipped.
FullUrl(href) ==
    IF IsPrefix(<<"/">>, href) THEN <<BASE_URL \o href>>
    ELSE IF IsPrefix(<<"h","t","t","p">>, href) THEN <<href>>
    ELSE <<>>

\* collect_article_urls_for_date(day), given the hrefs of the fetched listing
\* page: the urls of the local section, without duplicates, sorted.
FullUrls(hrefs) == {u \in UNION {{FullUrl(hrefs[i])} : i \in 1..Len(hrefs)} : u # <<>>}

CollectedUrls(hrefs) ==
    SortedTexts({u[1] : u \in {v \in FullUrls(hrefs) : Contains(v[1], LocalSection)}})

Request(kind, target, outcome) == [kind |-> kind, target |-> target, ok |-> outcome.ok]

\* What the loop of backfill_day does with one url and the article fetched for
\* it: the table, the counter, the number of articles saved and the requests made.
SaveOne(url, article, outcome, ts, st) ==
    IF article = <<>>
    THEN [st EXCEPT !.log = Append(@, Request("page", url, outcome))]
    ELSE [table |-> Inserted(st.table, st.counter, article[1], ts),
          counter |-> st.counter + 1,
          saved |-> st.saved + 1,
          log |-> Append(st.log, Request("page", url, outcome))]

RECURSIVE SaveFetched(_, _, _, _, _)
SaveFetched(urls, day, pages, ts, st) ==
    IF urls = <<>> THEN st
    ELSE SaveFetched(Tail(urls), day, pages, ts,
             SaveOne(Head(urls), fetch_article_from_page(Head(urls), day, pages[Head(urls)]),
                     pages[Head(urls)], ts, st))

\* backfill_day(date_str) on the given table, with the answers the network gives
\* to its requests: how it ends, its summary, the table and the requests made.
\* A failed request for the listing page raises out of backfill_day.
DaySummary(day, urls, st) ==
    [status |-> "returned",
     summary |-> << [date |-> IsoDate(day), urls_found |-> Len(urls),
                     articles_saved |-> st.saved] >>,
     st |-> st]

DayOfUrls(day, urls, pages, ts, st) ==
    DaySummary(day, urls, SaveFetched(urls, day, pages, ts, st))

DayParsed(day, listing, pages, ts, st) ==
    IF day = <<>>
    THEN [status |-> "ValueError", summary |-> <<>>, st |-> st]
    ELSE IF ~listing.ok
    THEN [status |-> "RequestException", summary |-> <<>>,
          st |-> [st EXCEPT !.log =
                     <<Request("listing", archive_url_for_date(day[1]), listing)>>]]
    ELSE DayOfUrls(day[1], CollectedUrls(listing.hrefs), pages, ts,
                   [st EXCEPT !.log =
                       <<Request("listing", archive_url_for_date(day[1]), listing)>>])

backfill_day(date_str, listing, pages, table, counter, ts) ==
    DayParsed(Strptime(date_str), listing, pages, ts,
              [table |-> table, counter |-> counter, saved |-> 0, log |-> <<>>])

\* The validation without the test of end < start.
RangeValidMut(start, end) == start # <<>> /\ end # <<>>

\* Both dates parse and the end is not before the start.
RangeValid(start, end) == start # <<>> /\ end # <<>> /\ ~(end[1] < start[1])

Ended == run.status \in {"returned", "ValueError", "RequestException"}

\* backfill_range(start_date_str, end_date_str) up to its loop
RangeCalled(start_date_str, end_date_str, start, end) ==
    /\ run' = [kind |-> "backfill_range", number |-> run.number + 1,
               status |-> IF RangeValid(start, end) THEN "running" ELSE "ValueError",
               start_date_str |-> start_date_str, end_date_str |-> end_date_str,
               current |-> IF RangeValid(start, end) THEN start[1] ELSE 0,
               last |-> IF RangeValid(start, end) THEN end[1] ELSE 0,
               total_urls |-> 0, total_saved |-> 0, per_day |-> <<>>,
               store_before |-> articles]
    /\ fetched' = <<>>
    /\ invoked' = <<>>
    /\ UNCHANGED <<articles, seq, now, firstWrite, lastWrite, response, writers>>

BackfillRangeCall(start_date_str, end_date_str) ==
    /\ Ended
    /\ run.number < MaxRuns
    /\ RangeCalled(start_date_str, end_date_str,
                   Strptime(start_date_str), Strptime(end_date_str))

\* One turn of the loop of backfill_range: backfill_day for the current day.
RangeDayDone(date_str, r) ==
    /\ invoked' = Append(invoked, date_str)
    /\ fetched' = fetched \o r.st.log
    /\ articles' = r.st.table
    /\ seq' = r.st.counter
    /\ run' = IF r.status = "returned"
              THEN [run EXCEPT !.per_day = Append(@, r.summary[1]),
                               !.total_urls = @ + r.summary[1].urls_found,
                               !.total_saved = @ + r.summary[1].articles_saved,
                               !.current = @ + 1]
              ELSE [run EXCEPT !.status = r.status]
    /\ UNCHANGED <<now, firstWrite, lastWrite, response, writers>>

BackfillRangeDay(listing, pages) ==
    /\ run.kind = "backfill_range"
    /\ run.status = "running"
    /\ run.current <= run.last
    /\ RangeDayDone(IsoDate(run.current),
                    backfill_day(IsoDate(run.current), listing, pages, articles, seq, UtcNowIso))

\* backfill_range returns its summary when the loop is over.
BackfillRangeReturn ==
    /\ run.kind = "backfill_range"
    /\ run.status = "running"
    /\ run.current > run.last
    /\ run' = [run EXCEPT !.status = "returned"]
    /\ UNCHANGED <<articles, seq, now, firstWrite, lastWrite, response, fetched, invoked, writers>>

\* backfill_day(date_str) called for one day by /backfill_day
DayCalled(date_str, r) ==
    /\ invoked' = <<date_str>>
    /\ fetched' = r.st.log
    /\ articles' = r.st.table
    /\ seq' = r.st.counter
    /\ run' = [kind |-> "backfill_day", number |-> run.number + 1,
               status |-> r.status,
               start_date_str |-> date_str, end_date_str |-> date_str,
               current |-> 0, last |-> 0,
               total_urls |-> IF r.status = "returned" THEN r.summary[1].urls_found ELSE 0,
               total_saved |-> IF r.status = "returned" THEN r.summary[1].articles_saved ELSE 0,
               per_day |-> r.summary,
               store_before |-> articles]
    /\ UNCHANGED <<now, firstWrite, lastWrite, response, writers>>

BackfillDayCall(date_str, listing, pages) ==
    /\ Ended
    /\ run.number < MaxRuns
    /\ DayCalled(date_str, backfill_day(date_str, listing, pages, articles, seq, UtcNowIso))

\* The article urls of the archive and what a listing page may hold.
UrlA1 == BASE_URL \o LocalSection \o <<"a","1">>
UrlA2 == BASE_URL \o LocalSection \o <<"a","2">>
ArticleUrls == {UrlA1, UrlA2}

ListingBoth ==
    [ok |-> TRUE,
     hrefs |-> << LocalSection \o <<"a","2">>, UrlA1, <<"/","s","p","o","r","t","/","x">>, <<"m","a","i","l","t","o",":","g","t">>,
                  LocalSection \o <<"a","1">> >>]
ListingOne == [ok |-> TRUE, hrefs |-> << <<"/","s","p","o","r","t","/","x">>, LocalSection \o <<"a","1">> >>]
ListingOutcomes == {FetchFailed, ListingBoth, ListingOne}

\* The date texts a caller passes: two days, the second one also without
\* leading zeros, a day that is not in the calendar and a date in another format.
DateTexts ==
    { IsoDate(July31), IsoDate(Aug01), <<"2","0","2","5","-","8","-","1">>, <<"2","0","2","5","-","0","2","-","3","0">>, <<"3","1",".","0","7",".","2","0","2","5">> }

----------------------------------------------------------------------------
(* The feed ingest: ingest.py. *)

\* config.FEEDS: the configured feed urls.
FEEDS == << <<"h","t","t","p","s",":","/","/","g","t","/","f","e","e","d","1">>, <<"h","t","t","p","s",":","/","/","g","t","/","f","e","e","d","2">> >>

\* parse_published(entry): the published time, else the updated time, as UTC
\* ISO text; None when the entry has neither.
parse_published(entry) ==
    IF entry.published_parsed # <<>>
    THEN IsoDateTime(entry.published_parsed[1].day, entry.published_parsed[1].second)
    ELSE IF entry.updated_parsed # <<>>
    THEN IsoDateTime(entry.updated_parsed[1].day, entry.updated_parsed[1].second)
    ELSE None

\* What the loop of ingest_feed does with one entry.
SaveEntry(url, title, summary, entry, source_title, outcome, ts, st) ==
    IF url = None \/ url = <<>> \/ title = <<>>
    THEN st
    ELSE [table |-> Inserted(st.table, st.counter,
                        [url |-> url, title |-> title, summary |-> summary,
                         content |-> fetch_fulltext(outcome),
                         published_at |-> parse_published(entry),
                         source |-> source_title], ts),
          counter |-> st.counter + 1,
          saved |-> st.saved + 1,
          log |-> Append(st.log, Request("page", url, outcome))]

\* What the page of the entry's link answers; an entry without link is
\* skipped before any request.
PageOf(pages, url) == IF url \in DOMAIN pages THEN pages[url] ELSE FetchFailed

RECURSIVE SaveEntries(_, _, _, _, _)
SaveEntries(entries, source_title, pages, ts, st) ==
    IF entries = <<>> THEN st
    ELSE SaveEntries(Tail(entries), source_title, pages, ts,
             SaveEntry(Head(entries).link, Strip(Head(entries).title),
                       Strip(Head(entries).summary), Head(entries), source_title,
                       PageOf(pages, Head(entries).link), ts, st))

\* ingest_feed(feed_url), given what feedparser.parse returned for it; a feed
\* that cannot be fetched or parsed comes back without title and entries.
ingest_feed(feed_url, feed, pages, table, counter, ts) ==
    SaveEntries(feed.entries, IF feed.title = None THEN feed_url ELSE feed.title, pages, ts,
                [table |-> table, counter |-> counter, saved |-> 0,
                 log |-> <<Request("feed", feed_url, feed)>>])

\* ingest_all() up to its loop
IngestAllCall ==
    /\ Ended
    /\ run.number < MaxRuns
    /\ run' = [kind |-> "ingest_all", number |-> run.number + 1, status |-> "running",
               next_feed |-> 1, total |-> 0, per_feed |-> <<>>,
               store_before |-> articles]
    /\ fetched' = <<>>
    /\ invoked' = <<>>
    /\ UNCHANGED <<articles, seq, now, firstWrite, lastWrite, response, writers>>

\* One turn of the loop of ingest_all: ingest_feed for the next feed.
FeedDone(st) ==
    /\ fetched' = fetched \o st.log
    /\ articles' = st.table
    /\ seq' = st.counter
    /\ run' = [run EXCEPT !.per_feed = Append(@, st.saved),
                          !.total = @ + st.saved,
                          !.next_feed = @ + 1]
    /\ UNCHANGED <<now, firstWrite, lastWrite, response, invoked, writers>>

IngestFeed(feed, pages) ==
    /\ run.kind = "ingest_all"
    /\ run.status = "running"
    /\ run.next_feed <= Len(FEEDS)
    /\ FeedDone(ingest_feed(FEEDS[run.next_feed], feed, pages, articles, seq, UtcNowIso))

\* ingest_all returns its summary when the loop is over.
IngestAllReturn ==
    /\ run.kind = "ingest_all"
    /\ run.status = "running"
    /\ run.next_feed > Len(FEEDS)
    /\ run' = [run EXCEPT !.status = "returned"]
    /\ UNCHANGED <<articles, seq, now, firstWrite, lastWrite, response, fetched, invoked, writers>>

At(day, second) == <<[day |-> day, second |-> second]>>

\* What feedparser.parse may return: nothing for a feed that is down; a feed
\* with a dated entry and an entry without link; a feed without title, with an
\* entry that has no date and an entry whose title is blank.
FeedDown == [ok |-> FALSE, title |-> None, entries |-> <<>>]
FeedNews ==
    [ok |-> TRUE, title |-> SrcFeed,
     entries |-> << [link |-> UrlA1, title |-> <<" ","S","t","a","d","t","f","e","s","t"," ">>, summary |-> <<" ","M","a","r","k","t">>,
                     published_parsed |-> At(July31, 23 * 3600),
                     updated_parsed |-> At(Aug01, 60)],
                    [link |-> None, title |-> TxtMarkt, summary |-> Empty,
                     published_parsed |-> <<>>, updated_parsed |-> <<>>] >>]
FeedUndated ==
    [ok |-> TRUE, title |-> None,
     entries |-> << [link |-> UrlA2, title |-> <<" ">>, summary |-> TxtMarkt,
                     published_parsed |-> <<>>, updated_parsed |-> At(Aug01, 60)],
                    [link |-> UrlA1, title |-> TxtMarkt, summary |-> Empty,
                     published_parsed |-> <<>>, updated_parsed |-> <<>>] >>]
FeedOutcomes == {FeedDown, FeedNews, FeedUndated}

----------------------------------------------------------------------------
(* The runs of the ingest and of the backfill, one at a time, against a     *)
(* network that answers each request with a page or fails.                  *)

NextPipeline ==
    \/ \E s \in DateTexts, e \in DateTexts : BackfillRangeCall(s, e)
    \/ \E l \in ListingOutcomes, p \in [ArticleUrls -> PageOutcomes] : BackfillRangeDay(l, p)
    \/ BackfillRangeReturn
    \/ \E d \in DateTexts, l \in ListingOutcomes, p \in [ArticleUrls -> PageOutcomes] :
           BackfillDayCall(d, l, p)
    \/ IngestAllCall
    \/ \E f \in FeedOutcomes, p \in [ArticleUrls -> PageOutcomes] : IngestFeed(f, p)
    \/ IngestAllReturn

SpecPipeline == Init /\ [][NextPipeline]_vars

----------------------------------------------------------------------------
(* The properties of the backfill and of the ingest.                        *)

\* The dates the caller of the run gave, as strptime reads them.
StartOf(r) == Strptime(r.start_date_str)
EndOf(r) == Strptime(r.end_date_str)
IsBackfill(r) == r.kind \in {"backfill_range", "backfill_day"}
BadDates(r) ==
    \/ StartOf(r) = <<>>
    \/ EndOf(r) = <<>>
    \/ EndOf(r)[1] < StartOf(r)[1]

\* C6: a backfill_range whose start or end date does not parse, or whose end
\* date is before its start date, and a backfill_day whose date does not
\* parse, end in ValueError with no request made and the table as it was.
C6_ValidationBeforeAnyEffect ==
    IsBackfill(run) /\ BadDates(run)
    => /\ run.status = "ValueError"
       /\ fetched = <<>>
       /\ articles = run.store_before

\* A backfill_range over two dates that parse, the end before the start, on a
\* table that holds articles, has ended in ValueError.
C6_Witness ==
    /\ run.kind = "backfill_range"
    /\ run.status = "ValueError"
    /\ StartOf(run) # <<>> /\ EndOf(run) # <<>>
    /\ EndOf(run)[1] < StartOf(run)[1]
    /\ articles # <<>>
    /\ fetched = <<>>

RECURSIVE SumOf(_, _)
SumOf(summaries, field) ==
    IF summaries = <<>> THEN 0
    ELSE summaries[1][field] + SumOf(Tail(summaries), field)

DaysOfRange(r) ==
    [i \in 1..(EndOf(r)[1] - StartOf(r)[1] + 1) |-> IsoDate(StartOf(r)[1] + i - 1)]

\* C7: a backfill_range over valid dates that has ended has invoked the
\* single-day routine once for each day from start to end, in ascending order,
\* and its totals are the sums over the per-day summaries.
C7_EveryDayOnce ==
    run.kind = "backfill_range" /\ Ended /\ ~BadDates(run)
    => /\ invoked = DaysOfRange(run)
       /\ Len(run.per_day) = Len(invoked)
       /\ run.total_saved = SumOf(run.per_day, "articles_saved")
       /\ run.total_urls = SumOf(run.per_day, "urls_found")

\* C8: no run of ingest_all, backfill_day or backfill_range is ended by a
\* request that failed.
C8_NoFetchAbortsRun ==
    run.status # "RequestException"

PageRequests(u) == {i \in 1..Len(fetched) : fetched[i].kind = "page" /\ fetched[i].target = u}
FailedOnly(u) ==
    /\ PageRequests(u) # {}
    /\ \A i \in PageRequests(u) : ~fetched[i].ok
RecordsOf(table, u) == {table[i] : i \in {j \in 1..Len(table) : table[j].url = u}}
SavedCount == IF run.kind = "ingest_all" THEN run.total ELSE run.total_saved
PagesFetched == {i \in 1..Len(fetched) : fetched[i].kind = "page" /\ fetched[i].ok}

\* C9: a url whose page could not be fetched in the run is skipped: its record
\* is as it was before the run, and the run counts no more saved articles than
\* pages it fetched.
C9_FailedPageIsSkipped ==
    run.kind # "none"
    => /\ \A u \in ArticleUrls :
             FailedOnly(u) => RecordsOf(articles, u) = RecordsOf(run.store_before, u)
       /\ SavedCount <= Cardinality(PagesFetched)

\* C10: every article written by the backfill has a title that is not empty.
C10_ArchiveTitleNotEmpty ==
    \A a \in Stored : a.source = SrcArchive => a.title # <<>>

----------------------------------------------------------------------------
(* The text normalizer on its own: expand_search_variants applied to the    *)
(* terms over a small alphabet.                                             *)

\* The longest term built from TermChars.
MaxTermLen == 3

\* Upper-case letters, letters the substitutions rewrite, and a combining mark
\* as a term typed in decomposed form holds it.
TermChars == {"S", "t", "a", "ß", "ä", "Ö", CombiningDiaeresis}
TxtStrasse == <<"S","t","r","a","ß","e">>
NormalizerTerms == UNION {[1..n -> TermChars] : n \in 0..MaxTermLen} \cup {TxtStrasse}

\* expand_search_variants(term) called on its own.
ExpandSearchVariants(term) ==
    /\ response = Idle
    /\ response' = [kind |-> "variants", term |-> term,
                    variants |-> expand_search_variants(term)]
    /\ UNCHANGED <<articles, seq, now, firstWrite, lastWrite, run, fetched, invoked, writers>>

NextNormalizer ==
    \/ \E term \in NormalizerTerms : ExpandSearchVariants(term)
    \/ Return

SpecNormalizer == Init /\ [][NextNormalizer]_vars

VariantSet(vs) == {vs[i] : i \in 1..Len(vs)}
Digraphs(s) == Concat([i \in 1..Len(s) |-> TranslitChar(s[i])])
HasCombiningMark(v) == \E k \in 1..Len(v) : IsCombiningMark(v[k])
Ascending(vs) == \A i \in 1..(Len(vs) - 1) : TextLess(vs[i], vs[i + 1])
ThreeForms(low) == {low, WithoutAccents(low), Digraphs(low)} \ {<<>>}

\* C11: for every term the variants are non-empty lower-cased texts in strictly
\* ascending order (so without duplicates), they are the lower-cased term, its
\* form without diacritics and its ae/oe/ue/ss form, for "Straße" they include
\* "straße" and "strasse", and none of them holds a combining mark.
C11_VariantsOfEveryTerm ==
    response.kind = "variants"
    => /\ \A v \in VariantSet(response.variants) : v # <<>> /\ PyLower(v) = v
       /\ Ascending(response.variants)
       /\ VariantSet(response.variants) = ThreeForms(PyLower(response.term))
       /\ response.term = TxtStrasse
            => {<<"s","t","r","a","ß","e">>, <<"s","t","r","a","s","s","e">>} \subseteq VariantSet(response.variants)
       /\ \A v \in VariantSet(response.variants) : ~HasCombiningMark(v)

\* What does hold of C11: all of it for a term that holds no combining mark.
C11_HoldsWithoutMarks ==
    response.kind = "variants"
    => /\ \A v \in VariantSet(response.variants) : v # <<>> /\ PyLower(v) = v
       /\ Ascending(response.variants)
       /\ VariantSet(response.variants) = ThreeForms(PyLower(response.term))
       /\ response.term = TxtStrasse
            => {<<"s","t","r","a","ß","e">>, <<"s","t","r","a","s","s","e">>} \subseteq VariantSet(response.variants)
       /\ ~HasCombiningMark(response.term)
            => \A v \in VariantSet(response.variants) : ~HasCombiningMark(v)

----------------------------------------------------------------------------
(* The order and the length of a query's result.                            *)

IsQueryResult == response.kind \in {"search", "candidates"}
Dated(row) == row.published_at # None
\* The place of the row's url in the order of first inserts.
InsertionOrder(row) == firstWrite[row.url][1].id

\* row a may stand directly before row b in a result
InOrder(a, b) ==
    /\ ~Dated(a) => ~Dated(b)
    /\ Dated(a) /\ Dated(b)
         => /\ SecondNamed(a.published_at) >= SecondNamed(b.published_at)
            /\ a.published_at = b.published_at => InsertionOrder(a) > InsertionOrder(b)

\* C12: in the result of search_articles and get_republish_candidates the rows
\* without published_at come after all rows with one, the dated rows are in
\* descending order of published_at, and rows of equal published_at are in
\* descending order of their first insert, whatever was updated since.
C12_ResultOrder ==
    IsQueryResult
    => \A i \in 1..Len(response.rows), j \in 1..Len(response.rows) :
           i < j => InOrder(response.rows[i], response.rows[j])

\* Two articles of equal published_at are returned, the one inserted first
\* after the other, although it was updated after the other was inserted.
C12_Witness ==
    /\ IsQueryResult
    /\ Len(response.rows) = 2
    /\ Dated(response.rows[1])
    /\ response.rows[1].published_at = response.rows[2].published_at
    /\ InsertionOrder(response.rows[2]) < InsertionOrder(response.rows[1])
    /\ lastWrite[response.rows[2].url][1].call > InsertionOrder(response.rows[1])

\* All rows that match the query of the response, in the order of the result.
AllMatching ==
    IF response.kind = "search"
    THEN search_articles(response.query, Len(articles), response.from_date, response.to_date)
    ELSE get_republish_candidates(response.query, response.from_date, response.to_date,
                                  Len(articles))

\* C13: the result of search_articles and get_republish_candidates has at most
\* limit rows and is a prefix of all matching rows in their order, for every
\* integer limit (no row for a limit below one).
C13_TruncatedToLimit ==
    IsQueryResult
    => /\ Len(response.rows) <= (IF response.limit < 0 THEN 0 ELSE response.limit)
       /\ response.rows = SubSeq(AllMatching, 1, Len(response.rows))

----------------------------------------------------------------------------
(* Concurrent callers of save_article: db.py.  Each call opens a connection *)
(* of its own, reads the clock, executes its one statement under SQLite's   *)
(* write lock on the database file, and commits.                            *)

\* What the concurrent callers save.
ConcurrentArticles ==
    {a \in StoreArticles : a.title \in {TxtGoettingen, TxtMarkt}}

\* save_article up to its statement: the connection is open and `now` is read.
ConcurrentSaveCall(w, a) ==
    /\ writers.of[w].pc = "idle"
    /\ writers.calls < MaxSaves
    /\ writers' = [writers EXCEPT !.of[w] = [pc |-> "called", args |-> a, ts |-> UtcNowIso],
                                  !.calls = @ + 1]
    /\ UNCHANGED <<articles, seq, now, firstWrite, lastWrite, response, run, fetched, invoked>>

\* A statement that takes every call for the lock's holder.
CanWriteMut(w) == TRUE

\* The INSERT takes the write lock of the database file; while another
\* connection holds it the statement waits in the busy handler.
CanWrite(w) == writers.lock = <<>>

\* cur.execute(INSERT ... ON CONFLICT ...): the statement runs on the committed
\* table, its effect stays in the caller's transaction.
ConcurrentExecute(w) ==
    /\ writers.of[w].pc = "called"
    /\ CanWrite(w)
    /\ writers' = [writers EXCEPT
                      !.lock = <<w>>,
                      !.of[w] = [pc |-> "executed", args |-> @.args, ts |-> @.ts,
                                 table |-> Inserted(articles, seq, @.args, @.ts),
                                 counter |-> seq + 1]]
    /\ UNCHANGED <<articles, seq, now, firstWrite, lastWrite, response, run, fetched, invoked>>

\* conn.commit(); conn.close(): the transaction becomes the table and the lock
\* is released.
ConcurrentCommit(w) ==
    /\ writers.of[w].pc = "executed"
    /\ articles' = writers.of[w].table
    /\ seq' = writers.of[w].counter
    /\ writers' = [writers EXCEPT
                      !.lock = <<>>,
                      !.of[w] = NotCalling,
                      !.commits = Append(@, [by |-> w, args |-> writers.of[w].args,
                                             ts |-> writers.of[w].ts])]
    /\ UNCHANGED <<now, firstWrite, lastWrite, response, run, fetched, invoked>>

NextConcurrent ==
    \/ \E w \in Writers, a \in ConcurrentArticles : ConcurrentSaveCall(w, a)
    \/ \E w \in Writers : ConcurrentExecute(w)
    \/ \E w \in Writers : ConcurrentCommit(w)
    \/ Tick

SpecConcurrent == Init /\ [][NextConcurrent]_vars

\* The commits of saves of url u, in the order of commit.
CommitsOf(u) ==
    LET IsOf(c) == c.args.url = u
    IN SelectSeq(writers.commits, IsOf)

\* The row is what the commit `last` wrote, created by the commit `first`.
WrittenBy(row, first, last) ==
    /\ row.title = last.args.title
    /\ row.summary = last.args.summary
    /\ row.content = last.args.content
    /\ row.published_at = last.args.published_at
    /\ row.source = last.args.source
    /\ row.updated_at = last.ts
    /\ row.created_at = first.ts

OneRecordOf(u, cs) ==
    /\ Cardinality(RecordsOf(articles, u)) = 1
    /\ \A row \in RecordsOf(articles, u) : WrittenBy(row, cs[1], cs[Len(cs)])

InFlight == {w \in Writers : writers.of[w].pc # "idle"}

\* C14: however the calls of two concurrent callers interleave, a url that was
\* saved has exactly one record, all of whose written fields are those of the
\* last save to commit and whose created_at is that of the first save to
\* commit; a url never saved has none, and no call is lost: each one is
\* committed or still on its way.
C14_LastCommitWins ==
    /\ \A u \in Urls :
          IF CommitsOf(u) = <<>>
          THEN RecordsOf(articles, u) = {}
          ELSE OneRecordOf(u, CommitsOf(u))
    /\ writers.calls = Len(writers.commits) + Cardinality(InFlight)

\* Two callers have saved the same url with different titles, and the one that
\* read the clock first has committed last.
C14_Witness ==
    /\ Len(writers.commits) = 2
    /\ writers.commits[1].by # writers.commits[2].by
    /\ writers.commits[1].args.url = writers.commits[2].args.url
    /\ writers.commits[1].args.title # writers.commits[2].args.title
    /\ TextLess(writers.commits[2].ts, writers.commits[1].ts)
    /\ InFlight = {}

----------------------------------------------------------------------------
(* Articles without published_at in the results.                            *)

HasWindow == Given(response.from_date) \/ Given(response.to_date)
Undated(rows) == {i \in 1..Len(rows) : ~Dated(rows[i])}

\* C15: an article without published_at is in no result of
\* get_republish_candidates and in no result of search_articles with a
\* from_date or a to_date; in a search without date window it comes after
\* every dated article.
C15_UndatedOnlyWithoutWindow ==
    IsQueryResult
    => IF response.kind = "candidates" \/ HasWindow
       THEN Undated(response.rows) = {}
       ELSE \A i \in Undated(response.rows), j \in 1..Len(response.rows) :
                Dated(response.rows[j]) => j < i

\* A search with a date window returned a dated article while an article
\* without published_at matches its term.
C15_Witness ==
    /\ response.kind = "search"
    /\ HasWindow
    /\ response.rows # <<>>
    /\ \E a \in Stored :
          /\ a.published_at = None
          /\ TextMatches(a, response.query)

====
